---- MODULE Spec2Model ----
(***************************************************************************)
(* Model of src/haveibeenpwned/mod.rs: the HaveIBeenPwnedParser handle     *)
(* (from_file, get_usage_count, get_file_size) and its Iterator::next.     *)
(*                                                                         *)
(* A file is a sequence of byte values, so that read_line, trim, split,    *)
(* to_lowercase and parse::<u64> are modelled by what they do to the       *)
(* characters of a line.  The text of the model is ASCII; the one other    *)
(* byte, 0xFF, stands for content that is not UTF-8, which read_line       *)
(* answers with an error after consuming the line.  The file is not        *)
(* written while the handle is in use.  A u64 value is written as          *)
(* its decimal numeral (a sequence of digits 0..9 without leading zeros),  *)
(* because the values at the edge of the u64 range do not fit the          *)
(* integers of the model checker.                                          *)
(***************************************************************************)
EXTENDS Integers, Sequences, FiniteSets, TLC

\* Longest enumerated corpus file, in bytes.
MaxLen == 5
\* Most pulls (calls of next) on one handle.
MaxPulls == 4

None == [tag |-> "None"]
Some(v) == [tag |-> "Some", value |-> v]

\* The bytes the enumerated corpus files are made of:
\* '\n', ' ', ':', '1', 'A' and 0xFF.
Alphabet == {10, 32, 58, 49, 65, 255}

\* ---------------------------------------------------------------------
\* Text helpers
\* ---------------------------------------------------------------------

\* s[from..to], empty when from > to.
Slice(s, from, to) == [i \in 1..(to - from + 1) |-> s[from + i - 1]]

\* Index of the first c in s at or after position from, 0 when there is none.
RECURSIVE IndexFrom(_, _, _)
IndexFrom(s, c, from) ==
    IF from > Len(s) THEN 0
    ELSE IF s[from] = c THEN from
    ELSE IndexFrom(s, c, from + 1)

\* BufRead::read_line consumes the bytes from the cursor up to and
\* including the next 0xA byte, or up to the end of the file; none at the
\* end of the file.
read_line_rewind(content, pos) ==
    LET start == IF pos >= Len(content) THEN 0 ELSE pos
        nl == IndexFrom(content, 10, start + 1)
    IN  IF nl = 0 THEN Slice(content, start + 1, Len(content))
        ELSE Slice(content, start + 1, nl)

read_line(content, pos) ==
    LET nl == IndexFrom(content, 10, pos + 1)
    IN  IF nl = 0 THEN Slice(content, pos + 1, Len(content))
        ELSE Slice(content, pos + 1, nl)

\* read_line fails, after consuming the bytes, when they are not UTF-8.
\* Of the bytes of the model only 0xFF is not ASCII, and no UTF-8 text
\* contains it.
valid_utf8(s) == \A i \in 1..Len(s) : s[i] < 128

\* char::is_whitespace on the ASCII range.
is_whitespace(c) == c \in {9, 10, 11, 12, 13, 32}

RECURSIVE FirstNonWs(_, _)
FirstNonWs(s, i) ==
    IF i > Len(s) THEN Len(s) + 1
    ELSE IF is_whitespace(s[i]) THEN FirstNonWs(s, i + 1)
    ELSE i

RECURSIVE LastNonWs(_, _)
LastNonWs(s, i) ==
    IF i < 1 THEN 0
    ELSE IF is_whitespace(s[i]) THEN LastNonWs(s, i - 1)
    ELSE i

trim_start(s) == Slice(s, FirstNonWs(s, 1), Len(s))

\* str::trim: leading and trailing whitespace removed.
trim(s) == Slice(s, FirstNonWs(s, 1), LastNonWs(s, Len(s)))

\* str::split(':'): the fields between separators; always at least one
\* field (the empty text splits into one empty field).
RECURSIVE split(_, _)
split(s, sep) ==
    LET i == IndexFrom(s, sep, 1)
    IN  IF i = 0 THEN <<s>>
        ELSE <<Slice(s, 1, i - 1)>> \o split(Slice(s, i + 1, Len(s)), sep)

\* char::to_lowercase on the ASCII range.
lower_char(c) == IF c >= 65 /\ c <= 90 THEN c + 32 ELSE c

to_lowercase_identity(s) == s

\* str::to_lowercase.
to_lowercase(s) == [i \in 1..Len(s) |-> lower_char(s[i])]

\* ---------------------------------------------------------------------
\* parse::<u64>
\* ---------------------------------------------------------------------

is_digit(c) == c >= 48 /\ c <= 57

AllDigits(s) == \A i \in 1..Len(s) : is_digit(s[i])

\* Digit values of a text of ASCII digits.
DigitValues(s) == [i \in 1..Len(s) |-> s[i] - 48]

\* A numeral without its leading zeros; <<0>> for zero.
RECURSIVE Canonical(_)
Canonical(d) ==
    IF Len(d) <= 1 THEN d
    ELSE IF d[1] = 0 THEN Canonical(Tail(d))
    ELSE d

\* u64::MAX = 18446744073709551615 as a numeral.
U64Max == <<1,8,4,4,6,7,4,4,0,7,3,7,0,9,5,5,1,6,1,5>>

\* a <= b for two numerals of the same length.
RECURSIVE LexLeq(_, _)
LexLeq(a, b) ==
    IF Len(a) = 0 THEN TRUE
    ELSE IF a[1] < b[1] THEN TRUE
    ELSE IF a[1] > b[1] THEN FALSE
    ELSE LexLeq(Tail(a), Tail(b))

\* The value of a canonical numeral fits 64 bits.
FitsU64(d) ==
    \/ Len(d) < Len(U64Max)
    \/ Len(d) = Len(U64Max) /\ LexLeq(d, U64Max)

\* The numeral of a small natural number.
RECURSIVE Numeral(_)
Numeral(n) == IF n < 10 THEN <<n>> ELSE Numeral(n \div 10) \o <<n % 10>>

\* str::parse::<u64>: an optional '+', then one or more ASCII digits whose
\* value fits 64 bits; anything else is an error.
parse(s) ==
    LET body == IF Len(s) > 0 /\ s[1] = 43 THEN Tail(s) ELSE s
    IN  IF Len(body) = 0 \/ ~AllDigits(body) THEN [ok |-> FALSE]
        ELSE IF ~FitsU64(Canonical(DigitValues(body))) THEN [ok |-> FALSE]
        ELSE [ok |-> TRUE, value |-> Canonical(DigitValues(body))]

\* ---------------------------------------------------------------------
\* The entry built from one line (Iterator::next after the read)
\* ---------------------------------------------------------------------

\* The value next returns for a line that was read: trim, split on ':',
\* lowercase the first field, parse the second; entry_size is the length
\* of the line as read.
next_item_trimmed_size(line) ==
    LET fields == split(trim(line), 58)
    IN  IF Len(fields) < 2 THEN None
        ELSE IF ~parse(fields[2]).ok THEN None
        ELSE Some([hash |-> to_lowercase(fields[1]),
                   occurrences |-> parse(fields[2]).value,
                   entry_size |-> Len(trim(line))])

next_item(line) ==
    LET fields == split(trim(line), 58)
    IN  IF Len(fields) < 1 THEN None
        ELSE IF Len(fields) < 2 THEN None
        ELSE IF ~parse(fields[2]).ok THEN None
        ELSE Some([hash |-> to_lowercase(fields[1]),
                   occurrences |-> parse(fields[2]).value,
                   entry_size |-> Len(line)])

\* ---------------------------------------------------------------------
\* Construction and its error
\* ---------------------------------------------------------------------

\* "No such file or directory (os error 2)"
NotFoundText == <<78,111,32,115,117,99,104,32,102,105,108,101,32,111,114,32,100,105,114,101,99,116,111,114,121,32,40,111,115,32,101,114,114,111,114,32,50,41>>
\* "Permission denied (os error 13)"
PermissionDeniedText == <<80,101,114,109,105,115,115,105,111,110,32,100,101,110,105,101,100,32,40,111,115,32,101,114,114,111,114,32,49,51,41>>

\* Display of std::io::Error for the two failures of the model.
io_error_text(err) ==
    IF err = "NotFound" THEN NotFoundText ELSE PermissionDeniedText

\* FormatErrorKind::to_string
FormatErrorKind_to_string(kind) ==
    IF kind = "NotATextFile"
    \* "not a text file which can be parsed"
    THEN <<110,111,116,32,97,32,116,101,120,116,32,102,105,108,101,32,119,104,105,99,104,32,99,97,110,32,98,101,32,112,97,114,115,101,100>>
    \* "format of lines does not match the required format"
    ELSE <<102,111,114,109,97,116,32,111,102,32,108,105,110,101,115,32,100,111,101,115,32,110,111,116,32,109,97,116,99,104,32,116,104,101,32,114,101,113,117,105,114,101,100,32,102,111,114,109,97,116>>

\* The values of CreateInstanceError.
Format(kind) == [tag |-> "Format", kind |-> kind]
Io(err) == [tag |-> "Io", error |-> err]

\* Display for CreateInstanceError: "Format error: {}" / "IO error: {}".
fmt(e) ==
    IF e.tag = "Format"
    THEN <<70,111,114,109,97,116,32,101,114,114,111,114,58,32>>
         \o FormatErrorKind_to_string(e.kind)
    ELSE <<73,79,32,101,114,114,111,114,58,32>> \o io_error_text(e.error)

\* str::contains
contains(text, sub) ==
    \E i \in 0..(Len(text) - Len(sub)) : Slice(text, i + 1, i + Len(sub)) = sub

\* The result of from_file for the state p of the file system at the path:
\* stat fails for a missing path, open fails for an unreadable one.
from_file_result_format(p) ==
    IF p.status = "missing" THEN [tag |-> "Err", error |-> Format("NotATextFile")]
    ELSE IF p.status = "unreadable"
         THEN [tag |-> "Err", error |-> Io("PermissionDenied")]
    ELSE [tag |-> "Ok",
          value |-> [known_password_hashes |-> None,
                     password_file |-> Some([pos |-> 0]),
                     file_size |-> Len(p.content)]]

from_file_result(p) ==
    IF p.status = "missing" THEN [tag |-> "Err", error |-> Io("NotFound")]
    ELSE IF p.status = "unreadable"
         THEN [tag |-> "Err", error |-> Io("PermissionDenied")]
    ELSE [tag |-> "Ok",
          value |-> [known_password_hashes |-> None,
                     password_file |-> Some([pos |-> 0]),
                     file_size |-> Len(p.content)]]

\* ---------------------------------------------------------------------
\* Queries
\* ---------------------------------------------------------------------

Passwords == {"password", "123456"}

\* Sha1::result_str for the passwords of the model: the 40 lowercase
\* hexadecimal characters of the SHA-1 digest.
Sha1Hex(password) ==
    IF password = "password"
    \* 5baa61e4c9b93f3f0682250b6cf8331b7ee68fd8
    THEN <<53,98,97,97,54,49,101,52,99,57,98,57,51,102,51,102,48,54,56,50,50,53,48,98,54,99,102,56,51,51,49,98,55,101,101,54,56,102,100,56>>
    \* 7c4a8d09ca3762af61e59520943dc26494f8941b
    ELSE <<55,99,52,97,56,100,48,57,99,97,51,55,54,50,97,102,54,49,101,53,57,53,50,48,57,52,51,100,99,50,54,52,57,52,102,56,57,52,49,98>>

\* The value get_usage_count returns.
usage_count_nonzero(this, password) ==
    IF this.known_password_hashes.tag = "Some"
    THEN <<0>>
    ELSE <<1>>

usage_count(this, password) ==
    IF this.known_password_hashes.tag = "Some"
    THEN LET hash_map == this.known_password_hashes.value
             password_hash == Sha1Hex(password)
         IN  IF password_hash \in DOMAIN hash_map
             THEN hash_map[password_hash]
             ELSE <<0>>
    ELSE <<0>>

\* The value get_file_size returns.
file_size_remaining(this) ==
    IF this.password_file.tag = "Some"
    THEN Some(this.file_size - this.password_file.value.pos)
    ELSE None

file_size_of(this) ==
    IF this.password_file.tag = "Some" THEN Some(this.file_size) ELSE None

\* ---------------------------------------------------------------------
\* Corpus files
\* ---------------------------------------------------------------------

\* Every file of at most MaxLen bytes over the alphabet.
BoundedFiles == UNION {[1..n -> Alphabet] : n \in 0..MaxLen}

\* "5baa61e4c9b93f3f0682250b6cf8331b7ee68fd8:3700000\n"
PwnedFile == Sha1Hex("password") \o <<58, 51,55,48,48,48,48,48, 10>>
\* "A:18446744073709551615\n", the largest count of 64 bits
MaxCountFile == <<65, 58, 49,56,52,52,54,55,52,52,48,55,51,55,48,57,53,53,49,54,49,53, 10>>
\* "A:18446744073709551616\n", one more than that
OverflowFile == <<65, 58, 49,56,52,52,54,55,52,52,48,55,51,55,48,57,53,53,49,54,49,54, 10>>
\* "Ab:12\nc:7\n"
TwoLineFile == <<65,98,58,49,50,10, 99,58,55,10>>
\* "A\nb:2\n": a line without separator, then a well-formed one
FaultThenGoodFile == <<65,10, 98,58,50,10>>
\* Both lines of the hash of "password", with different counts
DuplicateFile == Sha1Hex("password") \o <<58, 53, 10>>
                 \o Sha1Hex("password") \o <<58, 57, 10>>

ScenarioFiles ==
    {PwnedFile, MaxCountFile, OverflowFile, TwoLineFile, FaultThenGoodFile,
     DuplicateFile}

\* The file system at the path given to from_file.
Paths ==
    {[status |-> "ok", content |-> c] : c \in BoundedFiles \cup ScenarioFiles}
    \cup {[status |-> "missing", content |-> <<>>]}
    \cup {[status |-> "unreadable", content |-> c] : c \in ScenarioFiles}

\* ---------------------------------------------------------------------
\* State
\* ---------------------------------------------------------------------

VARIABLES
    path,       \* the file at the path: its status and its bytes
    made,       \* what from_file returned, once called: Ok or Err(error)
    this,       \* the fields of the instance from_file returned
    results,    \* what each call of next returned, in call order
    ret         \* what the last get_usage_count / get_file_size returned

vars == <<path, made, this, results, ret>>

NotCalled == [tag |-> "NotCalled"]

Init ==
    /\ path \in Paths
    /\ made = NotCalled
    /\ this = None
    /\ results = <<>>
    /\ ret = [op |-> "none"]

\* HaveIBeenPwnedParser::from_file(path)
from_file ==
    /\ made.tag = "NotCalled"
    /\ made' = IF from_file_result(path).tag = "Ok"
               THEN [tag |-> "Ok"]
               ELSE from_file_result(path)
    /\ this' = IF from_file_result(path).tag = "Ok"
               THEN from_file_result(path).value
               ELSE None
    /\ UNCHANGED <<path, results, ret>>

\* Iterator::next: one pull.  Each result is recorded with the cursor
\* before the read and the number of bytes the read consumed.  A read
\* error ends the pull with no item.
next ==
    /\ made.tag = "Ok"
    /\ Len(results) < MaxPulls
    /\ IF this.password_file.tag = "None"
       THEN /\ results' = Append(results, [item |-> None, offset |-> 0, read |-> 0])
            /\ UNCHANGED this
       ELSE LET pos == this.password_file.value.pos
                entry_line == read_line(path.content, pos)
                line_length == Len(entry_line)
            IN  /\ this' = [this EXCEPT !.password_file =
                                Some([pos |-> pos + line_length])]
                /\ results' = Append(results,
                                [item |-> IF valid_utf8(entry_line)
                                          THEN next_item(entry_line)
                                          ELSE None,
                                 offset |-> pos, read |-> line_length])
    /\ UNCHANGED <<path, made, ret>>

\* HaveIBeenPwnedParser::get_usage_count(password)
get_usage_count ==
    /\ made.tag = "Ok"
    /\ \E password \in Passwords :
          ret' = [op |-> "get_usage_count", password |-> password,
                  value |-> usage_count(this, password)]
    /\ UNCHANGED <<path, made, this, results>>

\* HaveIBeenPwnedParser::get_file_size()
get_file_size ==
    /\ made.tag = "Ok"
    /\ ret' = [op |-> "get_file_size", value |-> file_size_of(this)]
    /\ UNCHANGED <<path, made, this, results>>

Next == from_file \/ next \/ get_usage_count \/ get_file_size

Spec == Init /\ [][Next]_vars

\* ---------------------------------------------------------------------
\* Vocabulary of the properties
\* ---------------------------------------------------------------------

Constructed == made.tag = "Ok"

\* The lines of a file, each with its terminator; a last line without
\* terminator is a line too.
RECURSIVE Lines(_)
Lines(s) ==
    IF Len(s) = 0 THEN <<>>
    ELSE LET nl == IndexFrom(s, 10, 1)
         IN  IF nl = 0 THEN <<s>>
             ELSE <<Slice(s, 1, nl)>> \o Lines(Slice(s, nl + 1, Len(s)))

\* The text of a line without its last byte.
Body(l) == Slice(l, 1, Len(l) - 1)

\* The text after the first ':' of a terminated line.
CountText(l) == Slice(Body(l), IndexFrom(Body(l), 58, 1) + 1, Len(Body(l)))

\* <non-empty hash>:<decimal count>'\n', as text
LineWellFormed(l) ==
    /\ Len(l) >= 1
    /\ valid_utf8(l)
    /\ l[Len(l)] = 10
    /\ IndexFrom(Body(l), 58, 1) > 1
    /\ Len(CountText(l)) >= 1
    /\ AllDigits(CountText(l))

WellFormedFile(c) == \A i \in 1..Len(Lines(c)) : LineWellFormed(Lines(c)[i])

\* Every count of a well-formed file is at most u64::MAX.
CountsFitU64(c) ==
    \A i \in 1..Len(Lines(c)) :
        FitsU64(Canonical(DigitValues(CountText(Lines(c)[i]))))

\* The index of the first pull that returned no item, 0 when there is none.
RECURSIVE FirstNoneFrom(_, _)
FirstNoneFrom(rs, i) ==
    IF i > Len(rs) THEN 0
    ELSE IF rs[i].item.tag = "None" THEN i
    ELSE FirstNoneFrom(rs, i + 1)

FirstNone == FirstNoneFrom(results, 1)

RECURSIVE SumLen(_)
SumLen(ls) == IF Len(ls) = 0 THEN 0 ELSE Len(Head(ls)) + SumLen(Tail(ls))

RECURSIVE SumEntrySize(_, _)
SumEntrySize(rs, n) ==
    IF n = 0 THEN 0
    ELSE rs[n].item.value.entry_size + SumEntrySize(rs, n - 1)

\* The pulls before the first empty one yielded one entry per line of the
\* file, in file order, and the sizes of the entries add up to the file.
OneEntryPerLine ==
    LET ls == Lines(path.content)
        n == FirstNone - 1
    IN  /\ n = Len(ls)
        /\ \A i \in 1..n :
              /\ results[i].offset = SumLen(Slice(ls, 1, i - 1))
              /\ results[i].item.value.entry_size = Len(ls[i])
              /\ results[i].item.value.occurrences =
                     Canonical(DigitValues(CountText(ls[i])))
        /\ SumEntrySize(results, n) = Len(path.content)
        /\ file_size_of(this) = Some(SumEntrySize(results, n))

\* The line the i-th pull read.
LineRead(i) ==
    Slice(path.content, results[i].offset + 1,
          results[i].offset + results[i].read)

\* A line without ':' or whose second field is no unsigned integer.
Malformed(l) ==
    /\ Len(l) > 0
    /\ \/ IndexFrom(l, 58, 1) = 0
       \/ ~parse(split(trim(l), 58)[2]).ok

\* ---------------------------------------------------------------------
\* Properties
\* ---------------------------------------------------------------------

\* C1 as stated: for every file whose lines are <non-empty hash>:<decimal
\* count> with terminator, pulling until the first empty pull yields one
\* entry per line in file order and the entry sizes add up to the file
\* size.  Fails for a count above u64::MAX.
C1_AnyDecimalCount ==
    (Constructed /\ WellFormedFile(path.content) /\ FirstNone > 0)
        => OneEntryPerLine

\* C1 amended: the same, for files whose counts are at most u64::MAX.
C1_EntryPerLineAndSizes ==
    (/\ Constructed
     /\ WellFormedFile(path.content)
     /\ CountsFitU64(path.content)
     /\ FirstNone > 0)
        => OneEntryPerLine

\* Two well-formed lines were yielded and the third pull was empty.
C1_Witness ==
    /\ Constructed
    /\ path.content = TwoLineFile
    /\ FirstNone = 3

\* C2: once a pull has read a malformed line, that pull and every later
\* pull return no item.
C2_MalformedIsTerminal ==
    \A i \in 1..Len(results) :
        Malformed(LineRead(i)) =>
            \A j \in i..Len(results) : results[j].item.tag = "None"

\* The lines of the file that yield an entry with the given hash.
LinesWithHash(c, h) ==
    {i \in 1..Len(Lines(c)) :
        /\ valid_utf8(Lines(c)[i])
        /\ next_item(Lines(c)[i]).tag = "Some"
        /\ next_item(Lines(c)[i]).value.hash = h}

Max(S) == CHOOSE x \in S : \A y \in S : y <= x

\* C3: get_usage_count(p) returns the count of the last line of the loaded
\* file whose hash is sha1_hex(p), in every state.
C3_UsageCountFromFile ==
    (/\ Constructed
     /\ ret.op = "get_usage_count"
     /\ LinesWithHash(path.content, Sha1Hex(ret.password)) # {})
        => ret.value =
             next_item(Lines(path.content)[
                 Max(LinesWithHash(path.content, Sha1Hex(ret.password)))
             ]).value.occurrences

HashText(i) ==
    Slice(trim(LineRead(i)), 1, IndexFrom(trim(LineRead(i)), 58, 1) - 1)

HasUpper(s) == \E k \in 1..Len(s) : s[k] >= 65 /\ s[k] <= 90

IoErrorText == <<73,79,32,101,114,114,111,114,58>>

PwnedScenario(size) ==
    (Constructed /\ path.content = PwnedFile) =>
        /\ Len(results) >= 1 =>
              results[1].item =
                  Some([hash |-> Sha1Hex("password"),
                        occurrences |-> Numeral(3700000),
                        entry_size |-> size])
        /\ Len(results) >= 2 => results[2].item = None

\* C7 as stated: over the file
\* "5baa61e4c9b93f3f0682250b6cf8331b7ee68fd8:3700000\n" the first pull
\* yields that hash with 3700000 occurrences and entry_size 43, and the
\* second pull yields no item.  The line is 49 bytes long.
C7_EntrySize43 == PwnedScenario(43)

\* C7 amended: the same with entry_size 49, the 40 + 1 + 7 + 1 bytes of
\* the line.
C7_PwnedScenario == PwnedScenario(49)

\* Both pulls of the scenario were made.
C7_Witness ==
    /\ Constructed
    /\ path.content = PwnedFile
    /\ Len(results) = 2

\* C8: get_file_size returns the byte length captured by from_file in
\* every state, whatever was pulled or queried.
C8_FileSizeIsStable ==
    Constructed =>
        /\ file_size_of(this) = Some(Len(path.content))
        /\ ret.op = "get_file_size" => ret.value = Some(Len(path.content))

\* The size was asked for after a pull on a non-empty file came back empty.
C8_Witness ==
    /\ Constructed
    /\ ret.op = "get_file_size"
    /\ Len(path.content) > 0
    /\ Len(results) >= 2
    /\ results[Len(results)].item.tag = "None"

\* C9: a pull with the cursor at the end of the file reads nothing,
\* returns no item and leaves the cursor there, so every later pull does
\* the same; no line yields an entry twice; an empty file yields nothing.
C9_EndOfStreamAbsorbs ==
    Constructed =>
        /\ \A i \in 1..Len(results) :
              results[i].offset = Len(path.content) =>
                  /\ results[i].read = 0
                  /\ results[i].item.tag = "None"
                  /\ \A j \in i..Len(results) :
                        /\ results[j].offset = Len(path.content)
                        /\ results[j].item.tag = "None"
                  /\ this.password_file.value.pos = Len(path.content)
        /\ \A i, j \in 1..Len(results) :
              (i < j /\ results[i].item.tag = "Some"
                     /\ results[j].item.tag = "Some")
                  => results[i].offset < results[j].offset
        /\ Len(path.content) = 0 =>
              \A i \in 1..Len(results) : results[i].item.tag = "None"

\* An entry was yielded, then two pulls were made at the end of the file.
C9_Witness ==
    /\ Constructed
    /\ Len(results) = 3
    /\ results[1].item.tag = "Some"
    /\ results[2].offset = Len(path.content)
    /\ results[3].offset = Len(path.content)

\* C10: every yielded entry has a non-empty hash.
C10_HashIsNonEmpty ==
    \A i \in 1..Len(results) :
        results[i].item.tag = "Some" => Len(results[i].item.value.hash) > 0

====
